---- MODULE Spec2Model ----
(***************************************************************************)
(* Cache Hash Generator (cache_hash_generator.py).                          *)
(*                                                                         *)
(* A Python str is modelled as a sequence of characters.  A character is   *)
(* a one-character string for printable ASCII (the grave accent, which a   *)
(* string literal cannot hold, is the token "U+0060") and a token "U+XXXX" *)
(* for any other code point; ord gives its code point.  A bytes object is  *)
(* a sequence of integers in 0..255.                                       *)
(***************************************************************************)
EXTENDS Integers, Sequences, FiniteSets, TLC

VARIABLES
    generated_files,  \* list of (source path, cache file name) pairs
    output,           \* lines shown in the output Text widget
    file_type_var,    \* selected key of PATH_MAP
    output_mode,      \* "single" or "pack"
    readable,         \* source files that can currently be opened
    dirs,             \* directories that currently exist
    disk,             \* files written below the destination directories
    config_file,      \* CONFIG_FILE: whether it exists, and its lines
    last,             \* the handler that ran last and the dialogs it opened
    inputs,           \* what the user answered in the dialogs of that handler
    entry_types,      \* history: the file type each entry was processed under
    processed,        \* history: number of entries appended in this session
    call              \* the last direct call of a utility function

vars == <<generated_files, output, file_type_var, output_mode, readable, dirs,
          disk, config_file, last, inputs, entry_types, processed, call>>

----------------------------------------------------------------------------
(* Characters and strings *)

\* A function constructor with domain 1..n, as the sequence it is: the
\* elements are computed once, when the sequence is built.
Strict(f) == f \o << >>

AsciiPrintable ==
    <<" ","!","\"","#","$","%","&","'","(",")","*","+",",","-",".","/",
      "0","1","2","3","4","5","6","7","8","9",":",";","<","=",">","?","@",
      "A","B","C","D","E","F","G","H","I","J","K","L","M","N","O","P","Q",
      "R","S","T","U","V","W","X","Y","Z","[","\\","]","^","_","U+0060",
      "a","b","c","d","e","f","g","h","i","j","k","l","m","n","o","p","q",
      "r","s","t","u","v","w","x","y","z","{","|","}","~">>

\* Code points outside the printable ASCII range that the model uses:
\* TAB, LF, DEL, e-acute, the euro sign and an emoji.
OtherChars ==
    ("U+0009" :> 9) @@ ("U+000A" :> 10) @@ ("U+007F" :> 127) @@
    ("U+00E9" :> 233) @@ ("U+20AC" :> 8364) @@ ("U+1F600" :> 128512)

Chars == {AsciiPrintable[i] : i \in 1..Len(AsciiPrintable)} \cup DOMAIN OtherChars

ord ==
    [c \in Chars |->
        IF c \in DOMAIN OtherChars
        THEN OtherChars[c]
        ELSE 31 + (CHOOSE i \in 1..Len(AsciiPrintable) : AsciiPrintable[i] = c)]

LowerLetters ==
    <<"a","b","c","d","e","f","g","h","i","j","k","l","m",
      "n","o","p","q","r","s","t","u","v","w","x","y","z">>

UpperLetters ==
    <<"A","B","C","D","E","F","G","H","I","J","K","L","M",
      "N","O","P","Q","R","S","T","U","V","W","X","Y","Z">>

\* str.upper() on the characters the model uses
upper(s) ==
    Strict([i \in 1..Len(s) |->
        IF \E j \in 1..26 : LowerLetters[j] = s[i]
        THEN UpperLetters[CHOOSE j \in 1..26 : LowerLetters[j] = s[i]]
        ELSE s[i]])

HexLower == <<"0","1","2","3","4","5","6","7","8","9","a","b","c","d","e","f">>

HexUpper == <<"0","1","2","3","4","5","6","7","8","9","A","B","C","D","E","F">>

IsHexChar(c) == \E n \in 1..16 : HexLower[n] = c \/ HexUpper[n] = c

HexVal(c) == (CHOOSE n \in 1..16 : HexLower[n] = c \/ HexUpper[n] = c) - 1

\* bytes.fromhex: each pair of hex characters is one byte
fromhex(s) ==
    Strict([i \in 1..(Len(s) \div 2) |-> 16 * HexVal(s[2 * i - 1]) + HexVal(s[2 * i])])

\* bytes.hex: two lowercase hex characters per byte
hex(b) ==
    Strict([i \in 1..(2 * Len(b)) |->
        IF i % 2 = 1
        THEN HexLower[(b[(i + 1) \div 2] \div 16) + 1]
        ELSE HexLower[(b[i \div 2] % 16) + 1]])

\* the slice [::-1]
Reversed(s) == Strict([i \in 1..Len(s) |-> s[Len(s) + 1 - i]])

----------------------------------------------------------------------------
(* Hashing *)

\* The byte strings the source files of the model hold: b"", b"a", b"b".
Data == {<< >>, <<97>>, <<98>>}

\* hashlib.md5(data).hexdigest() on Data
hexdigest(data) ==
    CASE data = << >> ->
           <<"d","4","1","d","8","c","d","9","8","f","0","0","b","2","0","4",
             "e","9","8","0","0","9","9","8","e","c","f","8","4","2","7","e">>
      [] data = <<97>> ->
           <<"0","c","c","1","7","5","b","9","c","0","f","1","b","6","a","8",
             "3","1","c","3","9","9","e","2","6","9","7","7","2","6","6","1">>
      [] data = <<98>> ->
           <<"9","2","e","b","5","f","f","e","e","6","a","e","2","f","e","c",
             "3","a","d","7","1","c","7","7","7","5","3","1","5","7","8","f">>

\* A plausible slip: the hex string reversed character by character.
reverse_bytes_chars(md5) == Reversed(md5)

\* rev = bytes.fromhex(md5)[::-1].hex().upper()
reverse_bytes(md5) == upper(hex(Reversed(fromhex(md5))))

md5_and_reverse_bytes(data) ==
    LET md5 == upper(hexdigest(data))
        rev == reverse_bytes(md5)
    IN  <<md5, rev>>

----------------------------------------------------------------------------
(* File names *)

\* the characters urllib.parse.quote never encodes
AlwaysSafe ==
    {"a","b","c","d","e","f","g","h","i","j","k","l","m","n","o","p","q","r",
     "s","t","u","v","w","x","y","z","A","B","C","D","E","F","G","H","I","J",
     "K","L","M","N","O","P","Q","R","S","T","U","V","W","X","Y","Z",
     "0","1","2","3","4","5","6","7","8","9","_",".","-","~"}

\* str.encode("utf-8") of one code point
utf8(n) ==
    IF n < 128 THEN <<n>>
    ELSE IF n < 2048 THEN <<192 + (n \div 64), 128 + (n % 64)>>
    ELSE IF n < 65536
         THEN <<224 + (n \div 4096), 128 + ((n \div 64) % 64), 128 + (n % 64)>>
    ELSE <<240 + (n \div 262144), 128 + ((n \div 4096) % 64),
           128 + ((n \div 64) % 64), 128 + (n % 64)>>

\* "%XX" for every byte, in uppercase hex
PercentBytes(bs) ==
    Strict([i \in 1..(3 * Len(bs)) |->
        CASE i % 3 = 1 -> "%"
          [] i % 3 = 2 -> HexUpper[(bs[(i + 2) \div 3] \div 16) + 1]
          [] OTHER     -> HexUpper[(bs[i \div 3] % 16) + 1]])

RECURSIVE quote(_)
\* urllib.parse.quote(name, safe="")
quote(name) ==
    IF name = << >> THEN << >>
    ELSE (IF Head(name) \in AlwaysSafe
          THEN <<Head(name)>>
          ELSE PercentBytes(utf8(ord[Head(name)]))) \o quote(Tail(name))

\* A plausible slip: only code points above one byte trigger the encoding.
encode_name_wide(name) ==
    IF \E i \in 1..Len(name) : ord[name[i]] > 255 THEN quote(name) ELSE name

encode_name(name) ==
    IF \E i \in 1..Len(name) : ord[name[i]] > 127 THEN quote(name) ELSE name

----------------------------------------------------------------------------
(* Paths *)

LastSlash(p) ==
    IF \E i \in 1..Len(p) : p[i] = "/"
    THEN CHOOSE i \in 1..Len(p) :
            p[i] = "/" /\ \A j \in (i + 1)..Len(p) : p[j] # "/"
    ELSE 0

\* os.path.basename: what follows the last separator
basename(p) == SubSeq(p, LastSlash(p) + 1, Len(p))

RECURSIVE rstrip_slash(_)
rstrip_slash(p) ==
    IF p # << >> /\ p[Len(p)] = "/" THEN rstrip_slash(SubSeq(p, 1, Len(p) - 1)) ELSE p

\* os.path.dirname: what precedes the last separator, without trailing
\* separators unless it consists of separators only
dirname(p) ==
    LET head == SubSeq(p, 1, LastSlash(p))
    IN  IF \E i \in 1..Len(head) : head[i] # "/" THEN rstrip_slash(head) ELSE head

\* os.path.join of two components
join(a, b) ==
    IF b # << >> /\ b[1] = "/" THEN b
    ELSE IF a = << >> \/ a[Len(a)] = "/" THEN a \o b
    ELSE a \o <<"/">> \o b

----------------------------------------------------------------------------
(* The files and directories of the model *)

PathAX == <<"/","a","/","x",".","p","n","g">>
PathBX == <<"/","b","/","x",".","p","n","g">>
PathAE == <<"/","a","/","U+00E9",".","p","n","g">>
PathBY == <<"/","b","/","y",".","o","g","g">>

Paths == {PathAX, PathBX, PathAE, PathBY}

\* the source files that come and go while the program runs
Volatile == {PathBY}

\* what each source file holds
FileData(path) == IF path = PathBY THEN << >> ELSE <<97>>

DirOut == <<"/","o","u","t">>
DirTm == <<"/","t","m">>
DirTmSpace == <<"/","t","m"," ">>

DirNames == {DirOut, DirTm, DirTmSpace}

\* the directory the user picks in the save dialogs
SaveDirs == {DirOut}

\* the base name the user types for the archive
ZipNames == {<<"p","a","c","k">>}

MaxProcessed == 2

----------------------------------------------------------------------------
(* Config handling *)

KeySavePath == <<"s","a","v","e","_","p","a","t","h">>
KeyCachePath == <<"c","a","c","h","e","_","p","a","t","h">>

\* Python's None; like "", it is false in a condition
None == << >>

Whitespace == {" ", "U+0009", "U+000A"}

RECURSIVE strip(_)
\* str.strip(): leading and trailing whitespace removed
strip(s) ==
    IF s = << >> THEN s
    ELSE IF Head(s) \in Whitespace THEN strip(Tail(s))
    ELSE IF s[Len(s)] \in Whitespace THEN strip(SubSeq(s, 1, Len(s) - 1))
    ELSE s

\* str.split("=", 1) of a string that holds "="
split_eq(s) ==
    LET i == CHOOSE i \in 1..Len(s) : s[i] = "=" /\ \A j \in 1..(i - 1) : s[j] # "="
    IN  <<SubSeq(s, 1, i - 1), SubSeq(s, i + 1, Len(s))>>

\* config[k] = v on a dict, which keeps the order of insertion
dict_set(config, k, v) ==
    IF \E i \in 1..Len(config) : config[i][1] = k
    THEN Strict([i \in 1..Len(config) |->
                    IF config[i][1] = k THEN <<k, v>> ELSE config[i]])
    ELSE Append(config, <<k, v>>)

\* config.get(k)
dict_get(config, k) ==
    IF \E i \in 1..Len(config) : config[i][1] = k
    THEN config[CHOOSE i \in 1..Len(config) : config[i][1] = k][2]
    ELSE None

RECURSIVE load_lines(_, _, _)
load_lines(lines, ds, config) ==
    IF lines = << >> THEN config
    ELSE LET line == Head(lines)
             kv == split_eq(strip(line))
         IN  IF (\E i \in 1..Len(line) : line[i] = "=") /\ kv[2] \in ds
             THEN load_lines(Tail(lines), ds, dict_set(config, kv[1], kv[2]))
             ELSE load_lines(Tail(lines), ds, config)

\* load_config(), reading file f while the directories ds exist
load_config(f, ds) ==
    LET config == <<<<KeySavePath, None>>, <<KeyCachePath, None>>>>
    IN  IF f.exists THEN load_lines(f.lines, ds, config) ELSE config

\* f"{k}={v}\n"
config_line(kv) == kv[1] \o <<"=">> \o kv[2] \o <<"U+000A">>

\* A plausible slip: the file is rewritten with the updated key alone.
save_config_value_alone(f, ds, key, value) ==
    [exists |-> TRUE, lines |-> <<config_line(<<key, value>>)>>]

\* save_config_value(key, value): the file it leaves
save_config_value(f, ds, key, value) ==
    LET config == dict_set(load_config(f, ds), key, value)
        kept == SelectSeq(config, LAMBDA kv : kv[2] # << >>)
    IN  [exists |-> TRUE,
         lines |-> Strict([i \in 1..Len(kept) |-> config_line(kept[i])])]

get_save_dir(f, ds) == dict_get(load_config(f, ds), KeySavePath)

get_cache_dir(f, ds) == dict_get(load_config(f, ds), KeyCachePath)

----------------------------------------------------------------------------
(* Core processing logic *)

\* Mapping between file type and encoded cache path
PATH_MAP ==
    [images |-> <<"S","k","i","n","s","%","5","c","M","e","d","i","a","T","r","a",
                  "c","k","e","r","%","5","c","I","m","a","g","e","s","%","5","c">>,
     sounds |-> <<"S","k","i","n","s","%","5","c","M","e","d","i","a","T","r","a",
                  "c","k","e","r","%","5","c","S","o","u","n","d","s","%","5","c">>,
     music  |-> <<"S","k","i","n","s","%","5","c","C","h","a","l","l","e","n","g",
                  "e","M","u","s","i","c","s","%","5","c">>,
     mods   |-> <<"S","k","i","n","s","%","5","c","S","t","a","d","i","u","m","%",
                  "5","c","M","o","d","%","5","c">>,
     advert |-> <<"S","k","i","n","s","%","5","c","A","n","y","%","5","c","A","d",
                  "v","e","r","t","i","s","e","m","e","n","t","%","5","c">>]

\* the file types the user switches between in the model
FileTypes == {"images", "music"}

OutputModes == {"single", "pack"}

\* what md5_and_reverse_file computes from the bytes of each file
FileHashes == [path \in Paths |-> md5_and_reverse_bytes(FileData(path))]

\* md5_and_reverse_file(path) of a file that can be read
md5_and_reverse_file(path) == FileHashes[path]

\* A plausible slip: the name is built from the whole path of the file.
cache_line_full_path(file, base_path) ==
    md5_and_reverse_file(file)[2] \o <<"_">> \o base_path \o encode_name(file)

\* line = f"{rev}_{base_path}{name}"
cache_line(file, base_path) ==
    LET rev == md5_and_reverse_file(file)[2]
        name == encode_name(basename(file))
    IN  rev \o <<"_">> \o base_path \o name

RECURSIVE process_loop(_, _, _, _, _)
\* the loop of process_files over the files not yet handled: the list and
\* the display it leaves, and whether it ended by an exception (a file
\* that cannot be read)
process_loop(files, base_path, can_read, gf, out) ==
    IF files = << >> THEN [gf |-> gf, out |-> out, raised |-> FALSE]
    ELSE IF Head(files) \notin can_read THEN [gf |-> gf, out |-> out, raised |-> TRUE]
    ELSE LET line == cache_line(Head(files), base_path)
         IN  process_loop(Tail(files), base_path, can_read,
                          Append(gf, <<Head(files), line>>),
                          Append(out, line \o <<"U+000A">>))

\* A plausible slip: new entries are put in front of the list.
process_files_prepend(files) ==
    LET r == process_loop(files, PATH_MAP[file_type_var], readable, << >>, << >>)
    IN  /\ generated_files' = r.gf \o generated_files
        /\ output' = r.out \o output
        /\ processed' = processed + Len(r.gf)
        /\ last' = [op |-> "select_files",
                    log |-> IF r.raised THEN <<"error">> ELSE << >>]

process_files(files) ==
    LET r == process_loop(files, PATH_MAP[file_type_var], readable,
                          generated_files, output)
    IN  /\ generated_files' = r.gf
        /\ output' = r.out
        /\ processed' = processed + (Len(r.gf) - Len(generated_files))
        /\ last' = [op |-> "select_files",
                    log |-> IF r.raised THEN <<"error">> ELSE << >>]

\* A plausible slip: the list is emptied and the display is left as it is.
clear_all_list_only ==
    /\ generated_files' = << >>
    /\ output' = output

clear_all ==
    /\ generated_files' = << >>
    /\ output' = << >>

\* a file of the destination: plain bytes, or a ZIP archive given by its
\* members (name, bytes) in the order they were added
RawFile(bytes) == [kind |-> "raw", bytes |-> bytes, members |-> << >>]

ZipFile(members) == [kind |-> "zip", bytes |-> << >>, members |-> members]

\* A plausible slip: the loop stops one entry short.
RECURSIVE copy_loop_short(_, _, _, _, _, _)
copy_loop_short(entries, i, folder, dst_fail, d, ds) ==
    IF i >= Len(entries) THEN [disk |-> d, dirs |-> ds, raised |-> FALSE]
    ELSE LET out_path == join(folder, entries[i][2])
             made == ds \cup {dirname(out_path)}
         IN  IF entries[i][1] \notin readable \/ dst_fail = i
             THEN [disk |-> d, dirs |-> made, raised |-> TRUE]
             ELSE copy_loop_short(entries, i + 1, folder, dst_fail,
                       (out_path :> RawFile(FileData(entries[i][1]))) @@ d, made)

\* A plausible slip: when a copy fails, the files already written for the
\* batch are removed again.
RECURSIVE copy_loop_rollback(_, _, _, _, _, _)
copy_loop_rollback(entries, i, folder, dst_fail, d, ds) ==
    IF i > Len(entries) THEN [disk |-> d, dirs |-> ds, raised |-> FALSE]
    ELSE LET out_path == join(folder, entries[i][2])
             made == ds \cup {dirname(out_path)}
             batch == {join(folder, entries[j][2]) : j \in 1..(i - 1)}
         IN  IF entries[i][1] \notin readable \/ dst_fail = i
             THEN [disk |-> [p \in DOMAIN d \ batch |-> d[p]], dirs |-> made,
                   raised |-> TRUE]
             ELSE copy_loop_rollback(entries, i + 1, folder, dst_fail,
                       (out_path :> RawFile(FileData(entries[i][1]))) @@ d, made)

RECURSIVE copy_loop(_, _, _, _, _, _)
\* the loop of save_single_mode from entry i on: the destination it leaves
\* and whether it ended by an exception (entry dst_fail cannot be written,
\* or a source cannot be read)
copy_loop(entries, i, folder, dst_fail, d, ds) ==
    IF i > Len(entries) THEN [disk |-> d, dirs |-> ds, raised |-> FALSE]
    ELSE LET out_path == join(folder, entries[i][2])
             made == ds \cup {dirname(out_path)}
         IN  IF entries[i][1] \notin readable \/ dst_fail = i
             THEN [disk |-> d, dirs |-> made, raised |-> TRUE]
             ELSE copy_loop(entries, i + 1, folder, dst_fail,
                       (out_path :> RawFile(FileData(entries[i][1]))) @@ d, made)

RECURSIVE arcname(_)
\* the member name ZipFile.write gives arcname: leading separators are
\* dropped (a name without separators is normalised to itself)
arcname(line) ==
    IF line # << >> /\ Head(line) = "/" THEN arcname(Tail(line)) ELSE line

\* the members z.write adds for the entries, in order
zip_members(entries) ==
    Strict([i \in 1..Len(entries) |-> <<arcname(entries[i][2]), FileData(entries[i][1])>>])

Last(log) == [op |-> "save_output", log |-> log]

\* A plausible slip: a dismissed directory dialog is not checked.
save_single_mode_unchecked(folder, dst_fail) ==
    LET r == copy_loop(generated_files, 1, folder, dst_fail, disk, dirs)
    IN  /\ disk' = r.disk
        /\ dirs' = r.dirs
        /\ IF r.raised
           THEN /\ last' = Last(<<"askdirectory", "error">>)
                /\ UNCHANGED <<generated_files, output, config_file>>
           ELSE /\ config_file' = save_config_value(config_file, r.dirs, KeySavePath, folder)
                /\ last' = Last(<<"askdirectory", "write_config", "showinfo">>)
                /\ clear_all

\* save_single_mode(), the user answering the directory dialog with folder
\* (empty when dismissed); dst_fail is the entry whose destination cannot be
\* written, 0 when every destination can
save_single_mode(folder, dst_fail) ==
    IF folder = << >>
    THEN /\ last' = Last(<<"askdirectory">>)
         /\ UNCHANGED <<generated_files, output, disk, dirs, config_file>>
    ELSE LET r == copy_loop(generated_files, 1, folder, dst_fail, disk, dirs)
         IN  /\ disk' = r.disk
             /\ dirs' = r.dirs
             /\ IF r.raised
                THEN /\ last' = Last(<<"askdirectory", "error">>)
                     /\ UNCHANGED <<generated_files, output, config_file>>
                ELSE /\ config_file' =
                            save_config_value(config_file, r.dirs, KeySavePath, folder)
                     /\ last' = Last(<<"askdirectory", "write_config", "showinfo">>)
                     /\ clear_all

\* save_pack_mode(), the user typing zip_name (empty when dismissed) and
\* then picking the file zip_name.zip in out_dir (empty when dismissed);
\* dst_fail is not 0 when that file cannot be written
save_pack_mode(zip_name, out_dir, dst_fail) ==
    IF zip_name = << >>
    THEN /\ last' = Last(<<"askstring">>)
         /\ UNCHANGED <<generated_files, output, disk, dirs, config_file>>
    ELSE IF \E i \in 1..Len(generated_files) : generated_files[i][1] \notin readable
    THEN /\ last' = Last(<<"askstring", "error">>)
         /\ UNCHANGED <<generated_files, output, disk, dirs, config_file>>
    ELSE IF out_dir = << >>
    THEN /\ last' = Last(<<"askstring", "asksaveasfilename">>)
         /\ UNCHANGED <<generated_files, output, disk, dirs, config_file>>
    ELSE IF dst_fail # 0
    THEN /\ last' = Last(<<"askstring", "asksaveasfilename", "error">>)
         /\ UNCHANGED <<generated_files, output, disk, dirs, config_file>>
    ELSE LET zip_bytes == ZipFile(zip_members(generated_files))
             out == join(out_dir, zip_name \o <<".","z","i","p">>)
         IN  /\ disk' = (out :> zip_bytes) @@ disk
             /\ dirs' = dirs
             /\ config_file' =
                    save_config_value(config_file, dirs, KeySavePath, dirname(out))
             /\ last' = Last(<<"askstring", "asksaveasfilename", "write_config",
                               "showinfo">>)
             /\ clear_all

\* A plausible slip: the check for an empty list is missing.
save_output_unchecked(folder, zip_name, dst_fail) ==
    IF output_mode = "single"
    THEN save_single_mode(folder, dst_fail)
    ELSE save_pack_mode(zip_name, folder, dst_fail)

save_output(folder, zip_name, dst_fail) ==
    IF generated_files = << >>
    THEN /\ last' = Last(<<"showwarning">>)
         /\ UNCHANGED <<generated_files, output, disk, dirs, config_file>>
    ELSE IF output_mode = "single"
    THEN save_single_mode(folder, dst_fail)
    ELSE save_pack_mode(zip_name, folder, dst_fail)

\* open_or_choose_cache(), the user answering the directory dialog with
\* folder (empty when dismissed)
open_or_choose_cache(folder) ==
    LET path == get_cache_dir(config_file, dirs)
    IN  IF path # << >> /\ path \in dirs
        THEN /\ last' = [op |-> "open_or_choose_cache", log |-> <<"open_folder">>]
             /\ call' = [fn |-> "none"]
             /\ UNCHANGED config_file
        ELSE IF folder = << >>
        THEN /\ last' = [op |-> "open_or_choose_cache", log |-> <<"askdirectory">>]
             /\ call' = [fn |-> "none"]
             /\ UNCHANGED config_file
        ELSE /\ config_file' = save_config_value(config_file, dirs, KeyCachePath, folder)
             /\ call' = [fn |-> "save_config_value", key |-> KeyCachePath,
                         value |-> folder]
             /\ last' = [op |-> "open_or_choose_cache",
                         log |-> <<"askdirectory", "write_config", "showinfo">>
                                 \o (IF folder \in dirs THEN <<"open_folder">> ELSE << >>)]

----------------------------------------------------------------------------
(* The session: one action per button, radio button and change of the    *)
(* source files made from outside                                        *)

NoCall == [fn |-> "none"]

Idle == [op |-> "none", log |-> << >>]

Init ==
    /\ generated_files = << >>
    /\ output = << >>
    /\ file_type_var = "images"
    /\ output_mode = "single"
    /\ readable = Paths
    /\ dirs = DirNames
    /\ disk = << >>
    /\ config_file = [exists |-> FALSE, lines |-> << >>]
    /\ last = Idle
    /\ inputs = << >>
    /\ entry_types = << >>
    /\ processed = 0
    /\ call = NoCall

\* the file type of every entry appended by the step, after those of the
\* entries that stay
TypesAfter ==
    IF generated_files' = << >> THEN << >>
    ELSE entry_types \o
         [i \in 1..(Len(generated_files') - Len(generated_files)) |-> file_type_var]

\* the Select Files button; files is what the file picker returns
SelectFiles ==
    \E files \in UNION {[1..n -> Paths] : n \in 0..(MaxProcessed - processed)} :
        /\ IF files = << >>
           THEN /\ last' = [op |-> "select_files", log |-> << >>]
                /\ UNCHANGED <<generated_files, output, processed>>
           ELSE process_files(files)
        /\ inputs' = files
        /\ entry_types' = TypesAfter
        /\ UNCHANGED <<file_type_var, output_mode, readable, dirs, disk,
                       config_file, call>>

\* a radio button of the Type frame
ChangeFileType ==
    \E t \in FileTypes \ {file_type_var} :
        /\ file_type_var' = t
        /\ last' = Idle
        /\ inputs' = << >>
        /\ UNCHANGED <<generated_files, output, output_mode, readable, dirs, disk,
                       config_file, entry_types, processed, call>>

\* a radio button of the Output Mode frame
ChangeOutputMode ==
    \E m \in OutputModes \ {output_mode} :
        /\ output_mode' = m
        /\ last' = Idle
        /\ inputs' = << >>
        /\ UNCHANGED <<generated_files, output, file_type_var, readable, dirs, disk,
                       config_file, entry_types, processed, call>>

\* what the user may answer to the dialogs of a save: the directory picked
\* (empty when dismissed), the archive name typed (empty when dismissed),
\* and the destination that cannot be written (0 when every one can)
SaveAnswers ==
    IF generated_files = << >> THEN {<<<< >>, << >>, 0>>}
    ELSE IF output_mode = "single"
    THEN {<<<< >>, << >>, 0>>} \cup
         {<<folder, << >>, k>> : folder \in SaveDirs, k \in 0..Len(generated_files)}
    ELSE {<<<< >>, << >>, 0>>} \cup
         {<<folder, zip_name, k>> :
             folder \in SaveDirs \cup {<< >>}, zip_name \in ZipNames, k \in 0..1}

\* the Save button
SaveOutput ==
    \E a \in SaveAnswers :
        /\ save_output(a[1], a[2], a[3])
        /\ inputs' = a
        /\ entry_types' = TypesAfter
        /\ UNCHANGED <<file_type_var, output_mode, readable, processed, call>>

\* the Clear button
ClearAll ==
    /\ clear_all
    /\ last' = [op |-> "clear_all", log |-> << >>]
    /\ inputs' = << >>
    /\ entry_types' = << >>
    /\ UNCHANGED <<file_type_var, output_mode, readable, dirs, disk, config_file,
                   processed, call>>

\* a source file is deleted or made unreadable from outside
RemoveFile ==
    \E p \in readable \cap Volatile :
        /\ readable' = readable \ {p}
        /\ last' = Idle
        /\ inputs' = << >>
        /\ UNCHANGED <<generated_files, output, file_type_var, output_mode, dirs,
                       disk, config_file, entry_types, processed, call>>

\* a source file is put back
RestoreFile ==
    \E p \in Paths \ readable :
        /\ readable' = readable \cup {p}
        /\ last' = Idle
        /\ inputs' = << >>
        /\ UNCHANGED <<generated_files, output, file_type_var, output_mode, dirs,
                       disk, config_file, entry_types, processed, call>>

Next ==
    \/ SelectFiles
    \/ ChangeFileType
    \/ ChangeOutputMode
    \/ SaveOutput
    \/ ClearAll
    \/ RemoveFile
    \/ RestoreFile

Spec == Init /\ [][Next]_vars

----------------------------------------------------------------------------
(* Direct calls of the utility functions, on inputs drawn from samples *)

MaxStep == 9
MaxNameLen == 2

SeedBytes == {0, 9, 10, 15, 16, 127, 128, 171, 240, 255}

\* 16-byte digests: byte i is seed + step * i modulo 256
SampleDigests ==
    {Strict([i \in 1..16 |-> (seed + step * i) % 256]) :
        seed \in SeedBytes, step \in 0..MaxStep}

NameChars ==
    {"a", ".", "~", " ", "%", "U+0009", "U+007F", "U+00E9", "U+20AC", "U+1F600"}

SampleNames == UNION {[1..n -> NameChars] : n \in 1..MaxNameLen}

session == <<generated_files, output, file_type_var, output_mode, readable,
             dirs, disk, config_file, last, inputs, entry_types, processed>>

\* md5_and_reverse_bytes on the data of the model
HashData ==
    \E data \in Data :
        /\ call' = [fn |-> "md5_and_reverse_bytes",
                    md5 |-> md5_and_reverse_bytes(data)[1],
                    rev |-> md5_and_reverse_bytes(data)[2]]
        /\ UNCHANGED session

\* the second line of md5_and_reverse_bytes on a digest MD5 may return
ReverseDigest ==
    \E d \in SampleDigests :
        /\ call' = [fn |-> "md5_and_reverse_bytes",
                    md5 |-> upper(hex(d)),
                    rev |-> reverse_bytes(upper(hex(d)))]
        /\ UNCHANGED session

NextRev == HashData \/ ReverseDigest

SpecRev == Init /\ [][NextRev]_vars

CallEncodeName ==
    \E name \in SampleNames :
        /\ call' = [fn |-> "encode_name", name |-> name, ret |-> encode_name(name)]
        /\ UNCHANGED session

NextName == CallEncodeName

SpecName == Init /\ [][NextName]_vars

Keys == {KeySavePath, KeyCachePath}

\* save_config_value(key, value) with the name of an existing directory, as
\* the save handlers call it
CallSaveConfigValue ==
    \E key \in Keys, value \in dirs :
        /\ config_file' = save_config_value(config_file, dirs, key, value)
        /\ call' = [fn |-> "save_config_value", key |-> key, value |-> value]
        /\ UNCHANGED <<generated_files, output, file_type_var, output_mode, readable,
                       dirs, disk, last, inputs, entry_types, processed>>

\* the Open Cache button
OpenOrChooseCache ==
    \E folder \in dirs \cup {<< >>} :
        /\ open_or_choose_cache(folder)
        /\ inputs' = folder
        /\ UNCHANGED <<generated_files, output, file_type_var, output_mode, readable,
                       dirs, disk, entry_types, processed>>

\* a directory is deleted from outside
RemoveDir ==
    \E d \in dirs :
        /\ dirs' = dirs \ {d}
        /\ call' = NoCall
        /\ last' = Idle
        /\ inputs' = << >>
        /\ UNCHANGED <<generated_files, output, file_type_var, output_mode, readable,
                       disk, config_file, entry_types, processed>>

\* a directory is created from outside
MakeDir ==
    \E d \in DirNames \ dirs :
        /\ dirs' = dirs \cup {d}
        /\ call' = NoCall
        /\ last' = Idle
        /\ inputs' = << >>
        /\ UNCHANGED <<generated_files, output, file_type_var, output_mode, readable,
                       disk, config_file, entry_types, processed>>

NextConfig ==
    \/ CallSaveConfigValue
    \/ OpenOrChooseCache
    \/ RemoveDir
    \/ MakeDir

SpecConfig == Init /\ [][NextConfig]_vars

----------------------------------------------------------------------------
(* Properties of the utility functions *)

DigestOfEmpty ==
    <<"D","4","1","D","8","C","D","9","8","F","0","0","B","2","0","4",
      "E","9","8","0","0","9","9","8","E","C","F","8","4","2","7","E">>

\* hex pair i of rev is hex pair 15 - i of md5, each pair in its own order
PairsReversed(md5, rev) ==
    /\ Len(md5) = 32
    /\ Len(rev) = 32
    /\ \A i \in 0..15 :
          /\ rev[2 * i + 1] = md5[2 * (15 - i) + 1]
          /\ rev[2 * i + 2] = md5[2 * (15 - i) + 2]

IsUpperHex(s) == \A i \in 1..Len(s) : \E n \in 1..16 : HexUpper[n] = s[i]

\* C1, as amended: md5_and_reverse_bytes returns as the reversed value the 16
\* bytes of the digest in opposite order, as 32 uppercase hex characters
\* (hex pair i of the result is hex pair 15 - i of the digest, each pair in
\* its own order); the digest D41D8CD98F00B204E9800998ECF8427E gives
\* 7E42F8EC980980E904B2008FD98C1DD4, which is not the hex string reversed
\* character by character.
C1_ByteReversal ==
    call.fn = "md5_and_reverse_bytes" =>
        /\ PairsReversed(call.md5, call.rev)
        /\ IsUpperHex(call.rev)
        /\ call.md5 = DigestOfEmpty =>
              /\ call.rev =
                    <<"7","E","4","2","F","8","E","C","9","8","0","9","8","0","E","9",
                      "0","4","B","2","0","0","8","F","D","9","8","C","1","D","D","4">>
              /\ call.rev # Reversed(call.md5)

\* C1 witness: the digest of the empty byte string has been reversed.
C1_Witness ==
    /\ call.fn = "md5_and_reverse_bytes"
    /\ call.md5 = DigestOfEmpty
    /\ Len(call.rev) = 32

\* C1 as stated: the same, with the digest D41D8CD98F00B204E9800998ECF8427E
\* giving E98427ECF8990080E9B2008FD98C1DD4.
C1_AsStated ==
    call.fn = "md5_and_reverse_bytes" =>
        /\ PairsReversed(call.md5, call.rev)
        /\ IsUpperHex(call.rev)
        /\ call.md5 = DigestOfEmpty =>
              call.rev =
                 <<"E","9","8","4","2","7","E","C","F","8","9","9","0","0","8","0",
                   "E","9","B","2","0","0","8","F","D","9","8","C","1","D","D","4">>

HasNonAscii(name) == \E i \in 1..Len(name) : ord[name[i]] > 127

HasNonPrintable(name) == \E i \in 1..Len(name) : ord[name[i]] \notin 32..126

RECURSIVE IsPercentEncoded(_, _)
\* from position i on, r holds unreserved characters and "%XX" triplets only
IsPercentEncoded(r, i) ==
    IF i > Len(r) THEN TRUE
    ELSE IF r[i] \in AlwaysSafe THEN IsPercentEncoded(r, i + 1)
    ELSE /\ r[i] = "%"
         /\ i + 2 <= Len(r)
         /\ \E n \in 1..16 : HexUpper[n] = r[i + 1]
         /\ \E n \in 1..16 : HexUpper[n] = r[i + 2]
         /\ IsPercentEncoded(r, i + 3)

RECURSIVE PercentDecoded(_, _)
\* the bytes r stands for from position i on: "%XX" is the byte XX, any
\* other character its own code
PercentDecoded(r, i) ==
    IF i > Len(r) THEN << >>
    ELSE IF r[i] = "%" /\ i + 2 <= Len(r)
         THEN <<16 * HexVal(r[i + 1]) + HexVal(r[i + 2])>> \o PercentDecoded(r, i + 3)
         ELSE <<ord[r[i]]>> \o PercentDecoded(r, i + 1)

chr(n) == CHOOSE c \in Chars : ord[c] = n

RECURSIVE Utf8Decoded(_, _)
\* the characters the UTF-8 bytes bs encode from position i on
Utf8Decoded(bs, i) ==
    IF i > Len(bs) THEN << >>
    ELSE IF bs[i] < 128 THEN <<chr(bs[i])>> \o Utf8Decoded(bs, i + 1)
    ELSE IF bs[i] < 224
         THEN <<chr((bs[i] - 192) * 64 + (bs[i + 1] - 128))>> \o Utf8Decoded(bs, i + 2)
    ELSE IF bs[i] < 240
         THEN <<chr((bs[i] - 224) * 4096 + (bs[i + 1] - 128) * 64 + (bs[i + 2] - 128))>>
              \o Utf8Decoded(bs, i + 3)
    ELSE <<chr((bs[i] - 240) * 262144 + (bs[i + 1] - 128) * 4096
               + (bs[i + 2] - 128) * 64 + (bs[i + 3] - 128))>>
         \o Utf8Decoded(bs, i + 4)

\* percent-decoding, as urllib.parse.unquote does it
unquote(r) == Utf8Decoded(PercentDecoded(r, 1), 1)

\* C9, as amended: encode_name percent-encodes the whole name, reserved
\* characters included, exactly when the name holds a character above code
\* point 127, and returns the name unchanged otherwise; when it encodes,
\* percent-decoding the result recovers the name.
C9_EncodeName ==
    call.fn = "encode_name" =>
        IF HasNonAscii(call.name)
        THEN /\ IsPercentEncoded(call.ret, 1)
             /\ unquote(call.ret) = call.name
        ELSE call.ret = call.name

\* C9 witness: a name with a reserved and a non-ASCII character was encoded.
C9_Witness ==
    /\ call.fn = "encode_name"
    /\ call.name = <<"%", "U+20AC">>
    /\ call.ret # call.name

\* C9 as stated: the encoding happens exactly when the name holds a
\* character outside the 7-bit printable range.
C9_AsStated ==
    call.fn = "encode_name" =>
        IF HasNonPrintable(call.name)
        THEN /\ IsPercentEncoded(call.ret, 1)
             /\ unquote(call.ret) = call.name
        ELSE call.ret = call.name

\* the config file f holds the line "k=v"
Stored(f, k, v) ==
    /\ f.exists
    /\ \E i \in 1..Len(f.lines) : f.lines[i] = k \o <<"=">> \o v \o <<"U+000A">>

----------------------------------------------------------------------------
(* Properties of the session *)

Succeeded(l) == l.op = "save_output" /\ \E i \in 1..Len(l.log) : l.log[i] = "showinfo"

Failed(l) == l.op = "save_output" /\ \E i \in 1..Len(l.log) : l.log[i] = "error"

Below(folder, name) == folder \o <<"/">> \o name

\* C2, as amended: whenever process_files handles two files that have the
\* same bytes and the same base name while the same category is selected,
\* the two entries appended to generated_files carry the same derived name.
C2_SameNameForSameFile ==
    \A i, j \in 1..Len(generated_files) :
        ( /\ FileData(generated_files[i][1]) = FileData(generated_files[j][1])
          /\ entry_types[i] = entry_types[j]
          /\ basename(generated_files[i][1]) = basename(generated_files[j][1]) )
        => generated_files[i][2] = generated_files[j][2]

\* C2 witness: two files of different directories with the same bytes and
\* the same base name were processed under one category.
C2_Witness ==
    \E i, j \in 1..Len(generated_files) :
        /\ generated_files[i][1] # generated_files[j][1]
        /\ FileData(generated_files[i][1]) = FileData(generated_files[j][1])
        /\ entry_types[i] = entry_types[j]
        /\ basename(generated_files[i][1]) = basename(generated_files[j][1])
        /\ generated_files[i][2] = generated_files[j][2]

\* C2 as stated: two files with the same bytes, processed while the same
\* category is selected, get the same derived name.
C2_AsStated ==
    \A i, j \in 1..Len(generated_files) :
        ( /\ FileData(generated_files[i][1]) = FileData(generated_files[j][1])
          /\ entry_types[i] = entry_types[j] )
        => generated_files[i][2] = generated_files[j][2]

\* C3: whenever save_output has completed successfully, in individual mode
\* or in pack mode, generated_files is empty and the output display is empty.
C3_ClearedAfterSave ==
    Succeeded(last) => generated_files = << >> /\ output = << >>

\* C3 witness: a pack-mode save has succeeded.
C3_Witness ==
    /\ Succeeded(last)
    /\ inputs[2] # << >>
    /\ \E p \in DOMAIN disk : disk[p].kind = "zip"

\* every entry has its file below folder in d1, holding the bytes of its
\* source, and d1 differs from d0 in those files only
SingleCovered(entries, folder, d0, d1) ==
    /\ \A i \in 1..Len(entries) :
          /\ Below(folder, entries[i][2]) \in DOMAIN d1
          /\ d1[Below(folder, entries[i][2])] =
                [kind |-> "raw", bytes |-> FileData(entries[i][1]), members |-> << >>]
    /\ \A p \in DOMAIN d1 :
          \/ \E i \in 1..Len(entries) : p = Below(folder, entries[i][2])
          \/ p \in DOMAIN d0 /\ d1[p] = d0[p]
    /\ DOMAIN d0 \subseteq DOMAIN d1

\* the archive out of d1 has one member per entry, in order, named by the
\* derived name and holding the bytes of the source, and d1 differs from d0
\* in that archive only
PackCovered(entries, out, d0, d1) ==
    /\ out \in DOMAIN d1
    /\ d1[out].kind = "zip"
    /\ Len(d1[out].members) = Len(entries)
    /\ \A i \in 1..Len(entries) :
          d1[out].members[i] = <<entries[i][2], FileData(entries[i][1])>>
    /\ \A p \in DOMAIN d1 \ {out} : p \in DOMAIN d0 /\ d1[p] = d0[p]
    /\ DOMAIN d0 \subseteq DOMAIN d1

\* C4: a successful save covers the whole of generated_files: one file
\* <chosen directory>/<derived name> per entry in individual mode, one archive
\* member <derived name> per entry in pack mode, each holding the bytes of
\* the entry's source, no entry skipped and nothing written besides.
C4_SaveCoversEveryEntry ==
    [][Succeeded(last') =>
          IF output_mode = "single"
          THEN SingleCovered(generated_files, inputs'[1], disk, disk')
          ELSE PackCovered(generated_files,
                           Below(inputs'[1], inputs'[2] \o <<".","z","i","p">>),
                           disk, disk')]_vars

\* C4 witness: an individual-mode save of two entries with different names
\* has succeeded.
C4_Witness ==
    /\ Succeeded(last)
    /\ inputs[1] # << >>
    /\ inputs[2] = << >>
    /\ \E p, q \in DOMAIN disk : p # q /\ disk[p].kind = "raw" /\ disk[q].kind = "raw"

\* C5: save_output with generated_files empty, in either mode, reports the
\* empty selection and does nothing else: no prompt is opened, nothing is
\* written, the config file is not rewritten, generated_files stays empty.
C5_EmptySaveIsNoOp ==
    [][(last'.op = "save_output" /\ generated_files = << >>) =>
          /\ last'.log = <<"showwarning">>
          /\ generated_files' = << >>
          /\ output' = output
          /\ disk' = disk
          /\ dirs' = dirs
          /\ config_file' = config_file]_vars

\* C5 witness: Save was pressed in pack mode with nothing processed.
C5_Witness ==
    /\ last = [op |-> "save_output", log |-> <<"showwarning">>]
    /\ generated_files = << >>
    /\ output_mode = "pack"

\* the save of the step met a dismissed prompt: the directory picker of the
\* individual mode, the name prompt of the pack mode, or its file picker
\* (which opens once the archive is built)
Dismissed ==
    /\ last'.op = "save_output"
    /\ generated_files # << >>
    /\ IF output_mode = "single" THEN inputs'[1] = << >>
       ELSE \/ inputs'[2] = << >>
            \/ /\ inputs'[1] = << >>
               /\ \A i \in 1..Len(generated_files) : generated_files[i][1] \in readable

\* C6: a save whose prompt is dismissed is a silent abort: generated_files
\* is unchanged, nothing is written, the config file is unchanged, and no
\* message is shown.
C6_DismissedSaveIsSilent ==
    [][Dismissed =>
          /\ generated_files' = generated_files
          /\ output' = output
          /\ disk' = disk
          /\ dirs' = dirs
          /\ config_file' = config_file
          /\ \A i \in 1..Len(last'.log) :
                last'.log[i] \notin {"showinfo", "showwarning", "error"}]_vars

\* C6 witness: the file picker of a pack-mode save was dismissed.
C6_Witness ==
    /\ last = [op |-> "save_output", log |-> <<"askstring", "asksaveasfilename">>]
    /\ inputs[1] = << >>
    /\ generated_files # << >>

\* C7: generated_files changes only by entries appended at its end, one per
\* selected file in selection order (duplicates kept), or by being emptied
\* as a whole by a successful save or by Clear; no entry in it is modified,
\* moved or removed alone, whatever else changes (the category included).
C7_AppendOrEmpty ==
    [][\/ generated_files' = generated_files
       \/ /\ last'.op = "select_files"
          /\ Len(generated_files') > Len(generated_files)
          /\ SubSeq(generated_files', 1, Len(generated_files)) = generated_files
          /\ Len(generated_files') - Len(generated_files) <= Len(inputs')
          /\ \A i \in 1..(Len(generated_files') - Len(generated_files)) :
                generated_files'[Len(generated_files) + i][1] = inputs'[i]
          /\ (\A i \in 1..Len(last'.log) : last'.log[i] # "error") =>
                Len(generated_files') - Len(generated_files) = Len(inputs')
       \/ /\ generated_files' = << >>
          /\ last'.op = "clear_all" \/ Succeeded(last')]_vars

\* C7 witness: one file was processed twice, the category changed in
\* between; both entries are in the list, under different names.
C7_Witness ==
    /\ Len(generated_files) = 2
    /\ generated_files[1][1] = generated_files[2][1]
    /\ generated_files[1][2] # generated_files[2][2]

\* entry i of the list cannot be copied: its source cannot be read or its
\* destination cannot be written
CopyFails(i) == generated_files[i][1] \notin readable \/ inputs'[3] = i

\* C8: an individual-mode save that fails while copying entry k leaves the
\* files written for the entries before k in the destination, writes
\* nothing for k and the entries after it, does not clear generated_files
\* and does not update save_path.
C8_FailedSaveKeepsPartialOutput ==
    [][(Failed(last') /\ output_mode = "single") =>
          /\ \E k \in 1..Len(generated_files) : CopyFails(k)
          /\ LET k == CHOOSE k \in 1..Len(generated_files) :
                         CopyFails(k) /\ \A j \in 1..(k - 1) : ~CopyFails(j)
                 done == SubSeq(generated_files, 1, k - 1)
             IN  SingleCovered(done, inputs'[1], disk, disk')
          /\ generated_files' = generated_files
          /\ output' = output
          /\ config_file' = config_file
          /\ ~Succeeded(last')]_vars

\* C8 witness: an individual-mode save failed at its second entry, the file
\* of the first entry being in the destination.
C8_Witness ==
    /\ Failed(last)
    /\ output_mode = "single"
    /\ inputs[3] = 2
    /\ generated_files[1][1] \in readable
    /\ Below(inputs[1], generated_files[1][2]) \in DOMAIN disk
    /\ Below(inputs[1], generated_files[2][2]) \notin DOMAIN disk

====
